---- MODULE Spec2Model ----
(***************************************************************************)
(* Model of the scoring engine of the CMS bid price comparison server      *)
(* (src/simple_server.py): bid estimation, MACVAT value added, market      *)
(* relative normalisation, ranking and market statistics.                  *)
(*                                                                         *)
(* Money.  Python computes in binary floating point; the model computes in *)
(* exact fixed point.  One dollar is Unit = 12 * 4000 units, the smallest  *)
(* grid on which every product and quotient of the code (x*0.035, x*0.05,  *)
(* x*0.92, x*0.80, x*0.70, x*0.65, x*0.50, x*0.25, x/12) is exact for      *)
(* whole-dollar inputs.  round(x, 2) is modelled as rounding to the        *)
(* nearest cent, ties to even, on the exact value.  Rounding errors of     *)
(* binary floating point (for instance (-2.99 - -3.0) / (-2.96 - -3.0),    *)
(* which Python evaluates to 0.24999999999999445, not 0.25) are therefore  *)
(* not represented.                                                        *)
(***************************************************************************)
EXTENDS Integers, Sequences, FiniteSets

VARIABLES
    bid_args,       \* arguments of one call of calculate_estimated_bid
    bid_ret,        \* its locals and return value once it has returned
    mac_plan,       \* the plan dict of one direct call of calculate_mac_value
    mac_ret,        \* its result dict once it has returned
    rows,           \* rows fetched by the query of get_mac_value_analysis
    params_state,   \* the `state` request parameter
    pc,             \* the request: "idle", "request", "responded" (by the
                    \* analysis) or "plans_responded" (by get_plans)
    plans,          \* plan dicts with the financial metrics (lines 497-519)
    raw_mac_data,   \* first pass (lines 522-529)
    mac_analysis,   \* second pass, sorted (lines 568-599)
    market_stats,   \* lines 602-618
    response,       \* what the handler returned
    member_plan,    \* the plan dict of one call of calculate_member_value_pmpm
    member_ret,     \* its return value once it has returned
    proc,           \* start_servers: the state of each child process
    main_pc,        \* start_servers: where main stands
    frames,         \* start_servers: the running calls of cleanup_processes,
                    \* innermost last
    exiting,        \* start_servers: SystemExit is passing through finally
    signals,        \* start_servers: SIGINT/SIGTERM delivered so far
    cleanup_calls   \* start_servers: calls of cleanup_processes so far

vars == << bid_args, bid_ret, mac_plan, mac_ret, rows, params_state, pc,
           plans, raw_mac_data, mac_analysis, market_stats, response,
           member_plan, member_ret, proc, main_pc, frames, exiting, signals,
           cleanup_calls >>

memberVars == << member_plan, member_ret >>
launchVars == << proc, main_pc, frames, exiting, signals, cleanup_calls >>

bidVars == << bid_args, bid_ret >>
macVars == << mac_plan, mac_ret >>
reqVars == << rows, params_state, pc, plans, raw_mac_data, mac_analysis,
              market_stats, response >>

(***************************************************************************)
(* Values                                                                  *)
(***************************************************************************)
\* units per dollar (see the header)
Unit == 12 * 4000

\* Python's None, kept apart from every amount of the model
None == -1000000000

\* a field that holds text instead of a number: a non-empty str, which is
\* truthy and on which arithmetic with a number raises TypeError
Bad == -999999999

\* d dollars, in units
Dollars(d) == d * Unit

\* `not x` is true of None and of 0
Truthy(x) == x # None /\ x # 0

\* `x or 0`
OrZero(x) == IF Truthy(x) THEN x ELSE 0

\* x * (permille / 1000), exact whenever the product is on the unit grid
Scaled(x, permille) ==
    (x \div 1000) * permille + ((x % 1000) * permille) \div 1000

Max2(a, b) == IF a >= b THEN a ELSE b
Min2(a, b) == IF a <= b THEN a ELSE b

(***************************************************************************)
(* calculate_estimated_bid (lines 19-33)                                   *)
(***************************************************************************)
AdminMarginRate == 35       \* benchmark * 0.035
SupplementRate  == 50       \* supplements * 0.05
DefaultBidRate  == 920      \* benchmark * 0.92
BidFloorRate    == 800      \* benchmark * 0.80

\* faulty variant of BidBranch: the supplement branch does not look at the premium
BidBranchIgnoresPremium(premium, supplements) ==
    IF Truthy(supplements) /\ supplements > 0 THEN 1
    ELSE IF Truthy(premium) /\ premium > 0 THEN 2
    ELSE 3

\* which of the three branches of lines 26-31 is taken
BidBranch(premium, supplements) ==
    IF (~Truthy(premium) \/ premium = 0)
       /\ Truthy(supplements) /\ supplements > 0 THEN 1
    ELSE IF Truthy(premium) /\ premium > 0 THEN 2
    ELSE 3

\* estimated_bid before the clamp of line 33
PreClampBid(benchmark, premium, supplements) ==
    LET admin_margin == Scaled(benchmark, AdminMarginRate)
        branch       == BidBranch(premium, supplements)
    IN  IF branch = 1
          THEN benchmark - Scaled(supplements, SupplementRate) - admin_margin
        ELSE IF branch = 2
          THEN benchmark - premium - admin_margin
        ELSE Scaled(benchmark, DefaultBidRate)

\* faulty variant of ClampBid: the 80% floor is missing
ClampBidNoFloor(estimated_bid, benchmark) ==
    Min2(estimated_bid, benchmark)

\* line 33: max(min(estimated_bid, benchmark), benchmark * 0.80)
ClampBid(estimated_bid, benchmark) ==
    Max2(Min2(estimated_bid, benchmark), Scaled(benchmark, BidFloorRate))

calculate_estimated_bid(benchmark, premium, supplements) ==
    IF ~Truthy(benchmark) THEN None
    ELSE ClampBid(PreClampBid(benchmark, premium, supplements), benchmark)

(***************************************************************************)
(* One call of calculate_estimated_bid                                     *)
(***************************************************************************)
BenchmarkVals  == {None, 0, Dollars(-100), Dollars(100), Dollars(500)}
PremiumVals    == {None, 0, Dollars(-10), Dollars(5), Dollars(20),
                   Dollars(150), Dollars(600)}
SupplementVals == {None, 0, Dollars(-50), Dollars(200), Dollars(2400),
                   Dollars(4000)}

NoBidRet == [done |-> FALSE, branch |-> 0, estimated_bid |-> None,
             result |-> None]

IdleRequest ==
    /\ rows = << >>
    /\ params_state = ""
    /\ pc = "idle"
    /\ plans = << >>
    /\ raw_mac_data = << >>
    /\ mac_analysis = << >>
    /\ market_stats = [total_plans |-> 0]
    /\ response = "none"

Children == {"api", "frontend"}

IdleMember ==
    /\ member_plan = [rebate |-> None]
    /\ member_ret = [done |-> FALSE, result |-> 0]

IdleLauncher ==
    /\ proc = [c \in Children |-> "none"]
    /\ main_pc = "idle"
    /\ frames = << >>
    /\ exiting = FALSE
    /\ signals = 0
    /\ cleanup_calls = 0

IdleMac ==
    /\ mac_plan = [estimated_benchmark |-> None]
    /\ mac_ret = [done |-> FALSE, locals |-> [total_value_added |-> 0],
                  result |-> [mac_value |-> 0]]

IdleBid ==
    /\ bid_args = [benchmark |-> None, premium |-> None, supplements |-> None]
    /\ bid_ret = NoBidRet

InitBid ==
    /\ bid_args \in [benchmark : BenchmarkVals, premium : PremiumVals,
                     supplements : SupplementVals]
    /\ bid_ret = NoBidRet
    /\ IdleMac
    /\ IdleRequest
    /\ IdleMember
    /\ IdleLauncher

CallEstimatedBid ==
    /\ ~bid_ret.done
    /\ LET b == bid_args.benchmark
           p == bid_args.premium
           s == bid_args.supplements
       IN  bid_ret' =
             IF ~Truthy(b)
               THEN [done |-> TRUE, branch |-> 0, estimated_bid |-> None,
                     result |-> None]
               ELSE [done |-> TRUE, branch |-> BidBranch(p, s),
                     estimated_bid |-> PreClampBid(b, p, s),
                     result |-> calculate_estimated_bid(b, p, s)]
    /\ UNCHANGED << bid_args, macVars, reqVars, memberVars, launchVars >>

NextBid == CallEstimatedBid

SpecBid == InitBid /\ [][NextBid]_vars

(***************************************************************************)
(* calculate_mac_value (lines 57-149)                                      *)
(*                                                                         *)
(* A plan dict is a record; a key the dict lacks and a key holding None    *)
(* are both None here, since every read is `plan.get(key, 0) or 0`.        *)
(* Star ratings are in tenths of a star (4.5 stars = 45).                  *)
(***************************************************************************)
CentsPerDollar == 100

\* round(x, 2): to the nearest cent, ties to the even cent
Round2(x) ==
    LET cent == Unit \div CentsPerDollar
        q    == x \div cent
        r    == x % cent
    IN  IF 2 * r < cent THEN q * cent
        ELSE IF 2 * r > cent THEN (q + 1) * cent
        ELSE IF q % 2 = 0 THEN q * cent
        ELSE (q + 1) * cent

TopTierRating  == 45        \* star_rating >= 4.5
MidTierRating  == 35        \* star_rating >= 3.5
TopTierRebate  == 700       \* 0.70
MidTierRebate  == 650       \* 0.65
BaseRebate     == 500       \* 0.50
PartDShare     == 250       \* rebate_amount * 0.25
MonthsPerYear  == 12

\* faulty variant of RebatePercentage: the tier bounds are exclusive
RebatePercentageExclusive(star_rating) ==
    IF star_rating > TopTierRating THEN TopTierRebate
    ELSE IF star_rating > MidTierRating THEN MidTierRebate
    ELSE BaseRebate

\* lines 77-82, in permille
RebatePercentage(star_rating) ==
    IF star_rating >= TopTierRating THEN TopTierRebate
    ELSE IF star_rating >= MidTierRating THEN MidTierRebate
    ELSE BaseRebate

\* faulty variant of GrossSavings: the difference is not floored at 0
GrossSavingsUnfloored(benchmark, estimated_bid) ==
    IF Truthy(benchmark) /\ Truthy(estimated_bid)
      THEN benchmark - estimated_bid
      ELSE 0

\* line 85
GrossSavings(benchmark, estimated_bid) ==
    IF Truthy(benchmark) /\ Truthy(estimated_bid)
      THEN Max2(0, benchmark - estimated_bid)
      ELSE 0

\* faulty variant of SupplementalPmpm: the annual figure is taken as monthly
SupplementalNotDivided(supplemental_benefits_annual) ==
    supplemental_benefits_annual

\* line 90: supplemental_benefits_annual / 12
SupplementalPmpm(supplemental_benefits_annual) ==
    supplemental_benefits_annual \div MonthsPerYear

\* lines 108-127: the provisional ten-bucket score
ProvisionalScore(total_value_added) ==
    IF total_value_added >= Dollars(200) THEN 100
    ELSE IF total_value_added >= Dollars(150) THEN 90
    ELSE IF total_value_added >= Dollars(100) THEN 80
    ELSE IF total_value_added >= Dollars(75) THEN 70
    ELSE IF total_value_added >= Dollars(50) THEN 60
    ELSE IF total_value_added >= Dollars(25) THEN 50
    ELSE IF total_value_added >= 0 THEN 40
    ELSE IF total_value_added >= Dollars(-25) THEN 30
    ELSE IF total_value_added >= Dollars(-50) THEN 20
    ELSE 10

\* lines 98-101
TotalValueAdded(part_c, part_d, part_b_buydown, total_member_premium) ==
    part_c + part_d + part_b_buydown - total_member_premium

\* the line of the try block (62-149) at which a TypeError is raised, 0 if
\* none is: str + number (66), str >= float (77), str - x (85), str / 12
\* (90), float + str or float - str (98-101), round(str, 2) (144, 145).
\* Two str premiums concatenate at line 66 and fault at line 101.
MacFaultLine(plan) ==
    LET part_c_premium == OrZero(plan.part_c_premium)
        part_d_premium == OrZero(plan.part_d_premium)
        part_b_buydown == OrZero(plan.part_b_buydown)
        benchmark ==
            IF Truthy(plan.estimated_benchmark) THEN plan.estimated_benchmark
            ELSE OrZero(plan.benchmark_0pct)
        estimated_bid == OrZero(plan.estimated_bid)
        star_rating == OrZero(plan.overall_rating)
        supplemental_benefits_annual == OrZero(plan.total_supplemental_value)
    IN  IF (part_c_premium = Bad) # (part_d_premium = Bad) THEN 66
        ELSE IF star_rating = Bad THEN 77
        ELSE IF Truthy(benchmark) /\ Truthy(estimated_bid)
                /\ (benchmark = Bad \/ estimated_bid = Bad) THEN 85
        ELSE IF supplemental_benefits_annual = Bad THEN 90
        ELSE IF part_b_buydown = Bad \/ part_c_premium = Bad THEN 98
        ELSE IF benchmark = Bad THEN 144
        ELSE IF estimated_bid = Bad THEN 145
        ELSE 0

\* faulty variant of MacErrorResult: the except branch drops the error text
MacErrorResultNoErrorKey(fault_line) ==
    [ mac_value |-> 0,
      value_added_pmpm |-> 0,
      components |->
        [ part_c_benefit_value |-> 0,
          part_d_benefit_value |-> 0,
          part_b_buydown |-> 0,
          total_member_premium |-> 0,
          rebate_amount |-> 0,
          supplemental_benefits_pmpm |-> 0 ],
      calculation_details |-> << >>,
      has_error |-> FALSE,
      error |-> 0 ]

\* lines 151-166: the dict returned by the except branch; it has no
\* calculation_details key, and `error` holds the text of the exception
\* (here: the line that raised it)
MacErrorResult(fault_line) ==
    [ mac_value |-> 0,
      value_added_pmpm |-> 0,
      components |->
        [ part_c_benefit_value |-> 0,
          part_d_benefit_value |-> 0,
          part_b_buydown |-> 0,
          total_member_premium |-> 0,
          rebate_amount |-> 0,
          supplemental_benefits_pmpm |-> 0 ],
      calculation_details |-> << >>,
      has_error |-> TRUE,
      error |-> fault_line ]

\* the locals of calculate_mac_value at line 105, when nothing faulted
MacLocals(plan) ==
    LET part_c_premium == OrZero(plan.part_c_premium)
        part_d_premium == OrZero(plan.part_d_premium)
        total_member_premium == part_c_premium + part_d_premium
        part_b_buydown == OrZero(plan.part_b_buydown)
        benchmark ==
            IF Truthy(plan.estimated_benchmark) THEN plan.estimated_benchmark
            ELSE OrZero(plan.benchmark_0pct)
        estimated_bid == OrZero(plan.estimated_bid)
        star_rating == OrZero(plan.overall_rating)
        rebate_percentage == RebatePercentage(star_rating)
        gross_savings == GrossSavings(benchmark, estimated_bid)
        rebate_amount == Scaled(gross_savings, rebate_percentage)
        supplemental_benefits_annual == OrZero(plan.total_supplemental_value)
        supplemental_benefits_pmpm ==
            SupplementalPmpm(supplemental_benefits_annual)
        part_c_benefit_value == rebate_amount + supplemental_benefits_pmpm
        part_d_benefit_value == Scaled(rebate_amount, PartDShare)
    IN  [ total_member_premium |-> total_member_premium,
          part_b_buydown |-> part_b_buydown,
          benchmark |-> benchmark,
          estimated_bid |-> estimated_bid,
          star_rating |-> star_rating,
          rebate_percentage |-> rebate_percentage,
          gross_savings |-> gross_savings,
          rebate_amount |-> rebate_amount,
          supplemental_benefits_pmpm |-> supplemental_benefits_pmpm,
          part_c_benefit_value |-> part_c_benefit_value,
          part_d_benefit_value |-> part_d_benefit_value,
          total_value_added |->
              TotalValueAdded(part_c_benefit_value, part_d_benefit_value,
                              part_b_buydown, total_member_premium) ]

\* the dict returned at lines 129-149
MacResult(plan) ==
    LET l == MacLocals(plan)
    IN  [ mac_value |-> ProvisionalScore(l.total_value_added),
          value_added_pmpm |-> Round2(l.total_value_added),
          components |->
            [ part_c_benefit_value |-> Round2(l.part_c_benefit_value),
              part_d_benefit_value |-> Round2(l.part_d_benefit_value),
              part_b_buydown |-> Round2(l.part_b_buydown),
              total_member_premium |-> Round2(l.total_member_premium),
              rebate_amount |-> Round2(l.rebate_amount),
              supplemental_benefits_pmpm |->
                  Round2(l.supplemental_benefits_pmpm) ],
          calculation_details |->
            [ rebate_percentage |-> l.rebate_percentage \div 10,
              star_rating |-> l.star_rating,
              gross_savings |-> Round2(l.gross_savings),
              benchmark |-> Round2(l.benchmark),
              estimated_bid |-> Round2(l.estimated_bid) ],
          has_error |-> FALSE,
          error |-> 0 ]

\* lines 57-166: the try block and its except branch
calculate_mac_value(plan) ==
    IF MacFaultLine(plan) # 0
      THEN MacErrorResult(MacFaultLine(plan))
      ELSE MacResult(plan)

(***************************************************************************)
(* One direct call of calculate_mac_value                                  *)
(***************************************************************************)
RatingVals == {None, 0, 34, 35, 44, 45, 46}

\* plan dicts before the bid is filled in
MacPlanBases ==
    [ estimated_benchmark : {None, 0, Dollars(-100), Dollars(100),
                             Dollars(500), Bad},
      benchmark_0pct : {None, Dollars(450), Bad},
      estimated_bid : {None},
      part_c_premium : {None, 0, Dollars(20), Bad},
      part_d_premium : {None, Dollars(15), Bad},
      part_b_buydown : {None, 0, Dollars(10), Bad},
      overall_rating : RatingVals \cup {Bad},
      total_supplemental_value : {None, 0, Dollars(200), Dollars(2400),
                                  Bad} ]

\* the fields get_mac_value_analysis passes to calculate_estimated_bid
BidInputsNumeric(q) ==
    Bad \notin { q.estimated_benchmark, q.part_c_premium, q.part_d_premium,
                 q.total_supplemental_value }

\* a bid supplied with the record (never negative, possibly above the
\* benchmark), or the bid get_mac_value_analysis computes for it (line 509)
MacPlanBids(q) ==
    { None, 0, Dollars(80), Dollars(400), Dollars(600),
      Dollars(945) \div 2, Bad,
      IF BidInputsNumeric(q)
        THEN calculate_estimated_bid(OrZero(q.estimated_benchmark),
                                     OrZero(q.part_c_premium)
                                         + OrZero(q.part_d_premium),
                                     OrZero(q.total_supplemental_value))
        ELSE None }

NoMacRet == [done |-> FALSE, locals |-> [total_value_added |-> 0],
             result |-> [mac_value |-> 0]]

InitMac ==
    /\ \E q \in MacPlanBases :
         \E b \in MacPlanBids(q) : mac_plan = [q EXCEPT !.estimated_bid = b]
    /\ mac_ret = NoMacRet
    /\ IdleBid
    /\ IdleRequest
    /\ IdleMember
    /\ IdleLauncher

CallMacValue ==
    /\ ~mac_ret.done
    /\ mac_ret' = [done |-> TRUE,
                   locals |-> IF MacFaultLine(mac_plan) # 0
                                THEN [total_value_added |-> 0]
                                ELSE MacLocals(mac_plan),
                   result |-> calculate_mac_value(mac_plan)]
    /\ UNCHANGED << mac_plan, bidVars, reqVars, memberVars, launchVars >>

NextMac == CallMacValue

SpecMac == InitMac /\ [][NextMac]_vars

(***************************************************************************)
(* APIHandler.get_mac_value_analysis (lines 448-636)                       *)
(***************************************************************************)
MaxPlans == 3               \* longest batch the query returns in the model

InternalServerError == "500 Internal Server Error"

NoOrganization == "None"    \* market_leader of an empty batch (Python None)

Organizations == {"Aetna", "Humana"}
OrgRank(org) == IF org = "Aetna" THEN 1 ELSE 2

\* sum, max and min of a non-empty sequence of numbers
RECURSIVE SeqSum(_)
SeqSum(seq) == IF seq = << >> THEN 0 ELSE Head(seq) + SeqSum(Tail(seq))
RECURSIVE SeqMax(_)
SeqMax(seq) ==
    IF Len(seq) = 1 THEN seq[1] ELSE Max2(Head(seq), SeqMax(Tail(seq)))
RECURSIVE SeqMin(_)
SeqMin(seq) ==
    IF Len(seq) = 1 THEN seq[1] ELSE Min2(Head(seq), SeqMin(Tail(seq)))

\* one cent, in units: raw value added figures are round(x, 2)
Cent == Unit \div CentsPerDollar

\* premium_c + premium_d (line 507) when it does not fault: two str
\* values concatenate to a str
TotalPremium(premium_c, premium_d) ==
    IF premium_c = Bad /\ premium_d = Bad THEN Bad ELSE premium_c + premium_d

\* the line of calculate_estimated_bid at which a TypeError is raised, 0 if
\* none is: str * 0.035 (24), str > 0 on the supplements (26) or on the
\* premium (28); a falsy benchmark returns before anything is computed
BidFaultLine(benchmark, premium, supplements) ==
    IF ~Truthy(benchmark) THEN 0
    ELSE IF benchmark = Bad THEN 24
    ELSE IF (~Truthy(premium) \/ premium = 0) /\ supplements = Bad THEN 26
    ELSE IF premium = Bad THEN 28
    ELSE 0

\* the line of the loop of lines 498-519 at which one row raises, 0 if none:
\* str + number at line 507, or inside calculate_estimated_bid (line 509).
\* Nothing in the loop catches it.
PlanFaultLine(row) ==
    LET benchmark == OrZero(row.estimated_benchmark)
        premium_c == OrZero(row.part_c_premium)
        premium_d == OrZero(row.part_d_premium)
        supplements == OrZero(row.total_supplemental_value)
    IN  IF (premium_c = Bad) # (premium_d = Bad) THEN 507
        ELSE BidFaultLine(benchmark, TotalPremium(premium_c, premium_d),
                          supplements)

\* lines 499-519: the plan dict of one row.  Keys the query does not
\* select (benchmark_0pct, part_b_buydown) are absent, hence None.
PlanDict(row) ==
    LET benchmark == OrZero(row.estimated_benchmark)
        premium_c == OrZero(row.part_c_premium)
        premium_d == OrZero(row.part_d_premium)
        supplements == OrZero(row.total_supplemental_value)
        total_premium == TotalPremium(premium_c, premium_d)
        estimated_bid ==
            calculate_estimated_bid(benchmark, total_premium, supplements)
        rebate == IF Truthy(benchmark) /\ Truthy(estimated_bid)
                    THEN Max2(0, benchmark - estimated_bid) ELSE 0
    IN  [ organization |-> row.organization,
          contract_number |-> row.contract_number,
          overall_rating |-> row.overall_rating,
          estimated_benchmark |-> row.estimated_benchmark,
          part_c_premium |-> row.part_c_premium,
          part_d_premium |-> row.part_d_premium,
          total_supplemental_value |-> row.total_supplemental_value,
          benchmark_0pct |-> None,
          part_b_buydown |-> None,
          estimated_bid |-> estimated_bid,
          rebate |-> rebate,
          \* rebate / benchmark * 100, kept in hundredths of a percent
          margin_percentage |->
            IF Truthy(benchmark)
              THEN ((rebate \div Cent) * 100) \div (benchmark \div Unit)
              ELSE 0 ]

\* lines 522-529: first pass, as it stands at line 529
FirstPass(plan_seq) ==
    [ i \in 1..Len(plan_seq) |->
        LET mac_scores == calculate_mac_value(plan_seq[i])
        IN  [ plan |-> plan_seq[i],
              raw_value_added |-> mac_scores.value_added_pmpm,
              mac_scores |-> mac_scores ] ]

\* faulty variant of ValueAddedAmounts: a truthiness test, which also drops
\* the figure 0
ValueAddedAmountsTruthy(raw) ==
    LET all == [ i \in 1..Len(raw) |-> raw[i].raw_value_added ]
        NotFalsy(x) == x # None /\ x # 0
    IN  SelectSeq(all, NotFalsy)

\* line 532
ValueAddedAmounts(raw) ==
    LET all == [ i \in 1..Len(raw) |-> raw[i].raw_value_added ]
        NotNone(x) == x # None
    IN  SelectSeq(all, NotNone)

\* relative_position >= percent / 100, for relative_position =
\* (value_added - min_value) / value_range with value_range > 0
PositionAtLeast(value_added, min_value, value_range, percent) ==
    100 * ((value_added - min_value) \div Cent)
        >= percent * (value_range \div Cent)

\* faulty variant of MarketLadder: the thresholds are exclusive
MarketLadderExclusive(value_added, min_value, value_range) ==
    LET Above(percent) ==
          100 * ((value_added - min_value) \div Cent)
              > percent * (value_range \div Cent)
    IN  IF Above(90) THEN 100
        ELSE IF Above(75) THEN 90
        ELSE IF Above(60) THEN 80
        ELSE IF Above(40) THEN 70
        ELSE IF Above(25) THEN 60
        ELSE IF Above(10) THEN 50
        ELSE 40

\* faulty variant of MarketLadder: the scores of two buckets are exchanged
MarketLadderSwapped(value_added, min_value, value_range) ==
    LET AtLeast(percent) ==
          PositionAtLeast(value_added, min_value, value_range, percent)
    IN  IF AtLeast(90) THEN 90
        ELSE IF AtLeast(75) THEN 100
        ELSE IF AtLeast(60) THEN 80
        ELSE IF AtLeast(40) THEN 70
        ELSE IF AtLeast(25) THEN 60
        ELSE IF AtLeast(10) THEN 50
        ELSE 40

\* lines 544-559
MarketLadder(value_added, min_value, value_range) ==
    LET AtLeast(percent) ==
          PositionAtLeast(value_added, min_value, value_range, percent)
    IN  IF AtLeast(90) THEN 100
        ELSE IF AtLeast(75) THEN 90
        ELSE IF AtLeast(60) THEN 80
        ELSE IF AtLeast(40) THEN 70
        ELSE IF AtLeast(25) THEN 60
        ELSE IF AtLeast(10) THEN 50
        ELSE 40

NeutralScore == 60

\* faulty variant of calculate_market_relative_score: a tied market is sent
\* through the ladder with a range of 1 instead of getting the neutral score
MarketScoreNoTieCheck(value_added, amounts) ==
    IF Len(amounts) > 1
      THEN MarketLadder(value_added, SeqMin(amounts),
                        Max2(SeqMax(amounts) - SeqMin(amounts), Cent))
      ELSE NeutralScore

\* faulty variant of calculate_market_relative_score: the range is taken to be the
\* maximum itself
MarketScoreRangeIsMax(value_added, amounts) ==
    IF Len(amounts) > 1
      THEN LET max_value == SeqMax(amounts)
               min_value == SeqMin(amounts)
               value_range == max_value
           IN  IF value_range > 0
                 THEN MarketLadder(value_added, min_value, value_range)
                 ELSE NeutralScore
      ELSE NeutralScore

\* lines 534-565: the closure chosen for the batch, applied to one value
calculate_market_relative_score(value_added, amounts) ==
    IF Len(amounts) > 1
      THEN LET max_value == SeqMax(amounts)
               min_value == SeqMin(amounts)
               value_range == max_value - min_value
           IN  IF value_range > 0
                 THEN MarketLadder(value_added, min_value, value_range)
                 ELSE NeutralScore
      ELSE NeutralScore

\* faulty variant of market_relative_score: the provisional score stays
ProvisionalScoreKept(data, amounts) == data.mac_scores.mac_value

\* lines 572-575 (357-358 in get_plans): the score that replaces mac_value
market_relative_score(data, amounts) ==
    calculate_market_relative_score(data.raw_value_added, amounts)

\* lines 568-596: second pass, before the sort.  row_index records where
\* the plan stood in the batch; the code's dict does not carry it.
SecondPass(raw) ==
    LET amounts == ValueAddedAmounts(raw)
    IN  [ i \in 1..Len(raw) |->
            LET plan == raw[i].plan
                mac_scores == raw[i].mac_scores
            IN  [ organization |-> plan.organization,
                  contract_number |-> plan.contract_number,
                  overall_rating |-> plan.overall_rating,
                  mac_value |-> market_relative_score(raw[i], amounts),
                  value_added_pmpm |-> mac_scores.value_added_pmpm,
                  components |-> mac_scores.components,
                  calculation_details |-> mac_scores.calculation_details,
                  financial_summary |->
                    [ estimated_bid |-> plan.estimated_bid,
                      estimated_benchmark |-> plan.estimated_benchmark,
                      rebate |-> plan.rebate,
                      member_premium |->
                        TotalPremium(OrZero(plan.part_c_premium),
                                     OrZero(plan.part_d_premium)),
                      supplemental_value |-> plan.total_supplemental_value,
                      margin_percentage |-> plan.margin_percentage ],
                  row_index |-> i ] ]

\* faulty variant of InsertDescending: an equal score goes before its peers
InsertDescendingBeforeTies(sorted, e) ==
    LET ahead == Cardinality({ i \in 1..Len(sorted) :
                                 sorted[i].mac_value > e.mac_value })
    IN  SubSeq(sorted, 1, ahead) \o << e >>
          \o SubSeq(sorted, ahead + 1, Len(sorted))

\* e placed after every element whose key is not smaller
InsertDescending(sorted, e) ==
    LET ahead == Cardinality({ i \in 1..Len(sorted) :
                                 sorted[i].mac_value >= e.mac_value })
    IN  SubSeq(sorted, 1, ahead) \o << e >>
          \o SubSeq(sorted, ahead + 1, Len(sorted))

\* line 599: list.sort(key=mac_value, reverse=True), which is stable
RECURSIVE SortByMacValue(_, _)
SortByMacValue(sorted, rest) ==
    IF rest = << >> THEN sorted
    ELSE SortByMacValue(InsertDescending(sorted, Head(rest)), Tail(rest))

\* faulty variant of StatScores: the statistics read the provisional scores
StatScoresProvisional(analysis, raw) ==
    [ i \in 1..Len(raw) |-> raw[i].mac_scores.mac_value ]

\* line 603: the scores the statistics are computed from
StatScores(analysis, raw) ==
    [ i \in 1..Len(analysis) |-> analysis[i].mac_value ]

\* lines 602-618; the average is kept as the exact quotient num / den
MarketStats(analysis, raw) ==
    IF analysis # << >>
      THEN LET mac_values == StatScores(analysis, raw)
           IN  [ total_plans |-> Len(analysis),
                 average_mac_value |->
                   [num |-> SeqSum(mac_values), den |-> Len(mac_values)],
                 highest_mac_value |-> SeqMax(mac_values),
                 lowest_mac_value |-> SeqMin(mac_values),
                 market_leader |-> analysis[1].organization ]
      ELSE [ total_plans |-> 0,
             average_mac_value |-> [num |-> 0, den |-> 1],
             highest_mac_value |-> 0,
             lowest_mac_value |-> 0,
             market_leader |-> NoOrganization ]

(***************************************************************************)
(* One request to /api/mac-value-analysis                                  *)
(***************************************************************************)
\* rows whose benchmark is unknown: the value added is the monthly
\* supplemental value minus the premium
PremiumOnlyRows ==
    { [ organization |-> org, contract_number |-> "H0001",
        estimated_benchmark |-> None, part_c_premium |-> Dollars(d),
        part_d_premium |-> None, total_supplemental_value |-> 0,
        overall_rating |-> None ]
      : org \in Organizations, d \in {0, 10, 25, 40, 50, 60, 75, 90, 100} }

SupplementOnlyRows ==
    { [ organization |-> "Humana", contract_number |-> "H0004",
        estimated_benchmark |-> 0, part_c_premium |-> None,
        part_d_premium |-> 0, total_supplemental_value |-> Dollars(1200),
        overall_rating |-> 40 ] }

\* rows with a benchmark: the supplemental branch and the premium branch
BenchmarkRows ==
    { [ organization |-> "Aetna", contract_number |-> "H0002",
        estimated_benchmark |-> Dollars(500), part_c_premium |-> 0,
        part_d_premium |-> None, total_supplemental_value |-> Dollars(200),
        overall_rating |-> 46 ],
      [ organization |-> "Humana", contract_number |-> "H0003",
        estimated_benchmark |-> Dollars(500), part_c_premium |-> Dollars(20),
        part_d_premium |-> Dollars(15),
        total_supplemental_value |-> Dollars(2400), overall_rating |-> 35 ] }

\* rows with a text value in a numeric column: the star rating, the
\* supplemental value next to a positive premium, and the part C premium
MalformedRows ==
    { [ organization |-> "Aetna", contract_number |-> "H0005",
        estimated_benchmark |-> Dollars(500), part_c_premium |-> 0,
        part_d_premium |-> None, total_supplemental_value |-> Dollars(200),
        overall_rating |-> Bad ],
      [ organization |-> "Humana", contract_number |-> "H0006",
        estimated_benchmark |-> Dollars(500), part_c_premium |-> Dollars(20),
        part_d_premium |-> None, total_supplemental_value |-> Bad,
        overall_rating |-> 40 ],
      [ organization |-> "Humana", contract_number |-> "H0007",
        estimated_benchmark |-> None, part_c_premium |-> Bad,
        part_d_premium |-> None, total_supplemental_value |-> 0,
        overall_rating |-> 40 ] }

RowVals ==
    PremiumOnlyRows \cup SupplementOnlyRows \cup BenchmarkRows
        \cup MalformedRows

\* ORDER BY organization_marketing_name (line 492)
OrderedByOrganization(seq) ==
    \A i \in 1..(Len(seq) - 1) :
        OrgRank(seq[i].organization) <= OrgRank(seq[i + 1].organization)

\* the result sets of length n
Batches(n) == { seq \in [1..n -> RowVals] : OrderedByOrganization(seq) }

Init ==
    /\ params_state \in {"", "TX"}
    /\ \E n \in 0..MaxPlans : rows \in Batches(n)
    /\ pc = "request"
    /\ plans = << >>
    /\ raw_mac_data = << >>
    /\ mac_analysis = << >>
    /\ market_stats = [total_plans |-> 0]
    /\ response = "none"
    /\ IdleBid
    /\ IdleMac
    /\ IdleMember
    /\ IdleLauncher

GetMacValueAnalysis ==
    /\ pc = "request"
    /\ pc' = "responded"
    /\ IF params_state = ""
         THEN /\ response' = "State parameter is required"
              /\ UNCHANGED << plans, raw_mac_data, mac_analysis, market_stats >>
         ELSE IF \E i \in 1..Len(rows) : PlanFaultLine(rows[i]) # 0
         THEN \* the exception leaves the handler; do_GET (lines 218-220)
              \* answers send_error(500)
              /\ response' = InternalServerError
              /\ UNCHANGED << plans, raw_mac_data, mac_analysis, market_stats >>
         ELSE /\ plans' = [ i \in 1..Len(rows) |-> PlanDict(rows[i]) ]
              /\ raw_mac_data' = FirstPass(plans')
              /\ mac_analysis' =
                   SortByMacValue(<< >>, SecondPass(raw_mac_data'))
              /\ market_stats' = MarketStats(mac_analysis', raw_mac_data')
              /\ response' = "success"
    /\ UNCHANGED << rows, params_state, bidVars, macVars, memberVars,
                    launchVars >>

\* the line of the loop of get_plans (lines 279-308) at which one row
\* raises, 0 if none: str + number at line 283, or inside
\* calculate_estimated_bid (line 286), which is given the part C premium
PlansFaultLine(row) ==
    LET benchmark == OrZero(row.estimated_benchmark)
        part_c_premium == OrZero(row.part_c_premium)
        part_d_premium == OrZero(row.part_d_premium)
        supplemental_value == OrZero(row.total_supplemental_value)
    IN  IF (part_c_premium = Bad) # (part_d_premium = Bad) THEN 283
        ELSE BidFaultLine(benchmark, part_c_premium, supplemental_value)

\* line 304: 'estimated_bid': estimated_bid or 0
BidOrZero(estimated_bid) == OrZero(estimated_bid)

\* lines 280-306: the plan dict of get_plans.  The benchmark column
\* benchmark_0pct is the one the analysis query names estimated_benchmark.
PlansDict(row) ==
    LET benchmark == OrZero(row.estimated_benchmark)
        part_c_premium == OrZero(row.part_c_premium)
        part_d_premium == OrZero(row.part_d_premium)
        total_premium == TotalPremium(part_c_premium, part_d_premium)
        supplemental_value == OrZero(row.total_supplemental_value)
        estimated_bid ==
            calculate_estimated_bid(benchmark, part_c_premium,
                                    supplemental_value)
        rebate == IF Truthy(benchmark) /\ Truthy(estimated_bid)
                    THEN Max2(0, benchmark - estimated_bid) ELSE 0
    IN  [ organization |-> row.organization,
          contract_number |-> row.contract_number,
          overall_rating |-> row.overall_rating,
          estimated_benchmark |-> benchmark,
          part_c_premium |-> part_c_premium,
          part_d_premium |-> part_d_premium,
          total_premium |-> total_premium,
          total_supplemental_value |-> supplemental_value,
          benchmark_0pct |-> None,
          part_b_buydown |-> None,
          estimated_bid |-> BidOrZero(estimated_bid),
          rebate |-> rebate,
          margin_percentage |->
            IF Truthy(benchmark)
              THEN ((rebate \div Cent) * 100) \div (benchmark \div Unit)
              ELSE 0 ]

\* lines 354-361: the market-relative score replaces mac_value and the
\* result is attached to the plan under mac_value_scores
PlansScored(raw) ==
    LET amounts == ValueAddedAmounts(raw)
    IN  [ i \in 1..Len(raw) |->
            [ plan |-> raw[i].plan,
              mac_value_scores |->
                [ raw[i].mac_scores EXCEPT
                    !.mac_value = market_relative_score(raw[i], amounts) ] ] ]

\* get_plans (lines 228-368) with well-formed page and limit parameters.
\* plans holds, per row, the plan dict and the mac_value_scores attached to
\* it; raw_mac_data keeps the results as they stand at line 318.
GetPlans ==
    /\ pc = "request"
    /\ pc' = "plans_responded"
    /\ IF \E i \in 1..Len(rows) : PlansFaultLine(rows[i]) # 0
         THEN /\ response' = InternalServerError
              /\ UNCHANGED << plans, raw_mac_data >>
         ELSE /\ raw_mac_data' =
                   FirstPass([ i \in 1..Len(rows) |-> PlansDict(rows[i]) ])
              /\ plans' = PlansScored(raw_mac_data')
              /\ response' = "success"
    /\ UNCHANGED << mac_analysis, market_stats >>
    /\ UNCHANGED << rows, params_state, bidVars, macVars, memberVars,
                    launchVars >>

Next == GetMacValueAnalysis \/ GetPlans

Spec == Init /\ [][Next]_vars

(***************************************************************************)
(* calculate_member_value_pmpm (lines 35-55), one call                     *)
(***************************************************************************)
\* the bare `except:` of line 54 is taken when a field holds text: str and
\* number do not add, and two concatenated str do not subtract
MemberFault(plan) ==
    Bad \in { plan.rebate, plan.total_supplemental_value,
              plan.part_c_premium, plan.part_d_premium }

\* lines 37-55; the amounts drawn are whole dollars, so / 12 is exact
calculate_member_value_pmpm(plan) ==
    IF MemberFault(plan) THEN 0
    ELSE LET rebate == OrZero(plan.rebate)
             supplemental_value == OrZero(plan.total_supplemental_value)
             part_c_premium == OrZero(plan.part_c_premium)
             part_d_premium == OrZero(plan.part_d_premium)
             annual_rebate == rebate
             annual_supplemental == supplemental_value
             annual_premium_cost ==
                 (part_c_premium + part_d_premium) * MonthsPerYear
             annual_member_value ==
                 annual_rebate + annual_supplemental - annual_premium_cost
         IN  annual_member_value \div MonthsPerYear

MemberRebateVals == {None, Bad, 0, Dollars(10), Dollars(24)}
MemberSupplementVals == {None, Bad, 0, Dollars(200), Dollars(1200)}
MemberPremiumVals == {None, Bad, 0, Dollars(20)}

InitMember ==
    /\ member_plan \in [ rebate : MemberRebateVals,
                         total_supplemental_value : MemberSupplementVals,
                         part_c_premium : MemberPremiumVals,
                         part_d_premium : MemberPremiumVals ]
    /\ member_ret = [done |-> FALSE, result |-> 0]
    /\ IdleBid
    /\ IdleMac
    /\ IdleRequest
    /\ IdleLauncher

CallMemberValue ==
    /\ ~member_ret.done
    /\ member_ret' = [done |-> TRUE,
                      result |-> calculate_member_value_pmpm(member_plan)]
    /\ UNCHANGED << member_plan, bidVars, macVars, reqVars, launchVars >>

NextMember == CallMemberValue

SpecMember == InitMember /\ [][NextMember]_vars

(***************************************************************************)
(* start_servers.main (lines 201-264).  A child process is "none" (never   *)
(* started), "running", "terminating" (SIGTERM sent, still alive),         *)
(* "killed" (SIGKILL sent, not yet reaped) or "exited" (poll() gives its   *)
(* return code).  A child may exit at any moment.  cleanup_processes runs  *)
(* step by step, since a signal handler that calls it again can interrupt  *)
(* it between any two steps.                                               *)
(***************************************************************************)
MaxSignals == 2             \* SIGINT/SIGTERM deliveries in one run

\* proc.poll() is None
PollIsNone(c) == proc[c] # "exited"

\* faulty variant of NeedsStop: the poll() test is left out
NeedsStopNoPoll(frame, c) == c \in frame.args

\* lines 183 and 191: `if proc and proc.poll() is None`
NeedsStop(frame, c) == c \in frame.args /\ PollIsNone(c)

\* a call of cleanup_processes with the given non-None arguments; `sent`
\* counts its terminate() and kill() calls, entry_stopped records that every
\* argument had exited when it was called
CleanupFrame(args, exit_after) ==
    [ args |-> args,
      at |-> "api_poll",
      exit_after |-> exit_after,
      entry_stopped |-> \A c \in args : proc[c] = "exited",
      sent |-> 0 ]

PollStep(c) == IF c = "api" THEN "api_poll" ELSE "frontend_poll"
WaitStep(c) == IF c = "api" THEN "api_wait" ELSE "frontend_wait"
StepAfter(c) == IF c = "api" THEN "frontend_poll" ELSE "done"

Top == frames[Len(frames)]
SetTop(frame) == [frames EXCEPT ![Len(frames)] = frame]

InitLauncher ==
    /\ proc = [c \in Children |-> "none"]
    /\ main_pc = "prerequisites"
    /\ frames = << >>
    /\ exiting = FALSE
    /\ signals = 0
    /\ cleanup_calls = 0
    /\ IdleBid
    /\ IdleMac
    /\ IdleRequest
    /\ IdleMember

\* lines 206-213: prerequisites and dependencies, met or not
Prerequisites ==
    /\ main_pc = "prerequisites"
    /\ main_pc' \in {"start_api", "returned1"}
    /\ UNCHANGED << proc, frames, exiting, signals, cleanup_calls >>

\* lines 220-223 with start_api_server (85-113): the port is taken or Popen
\* raises (no child), the child has exited after the sleep, or it runs
StartApi ==
    /\ main_pc = "start_api"
    /\ \E outcome \in {"none", "exited", "running"} :
         /\ proc' = [proc EXCEPT !["api"] = outcome]
         /\ main_pc' = IF outcome = "running" THEN "start_frontend"
                       ELSE "returned1"
    /\ UNCHANGED << frames, exiting, signals, cleanup_calls >>

\* lines 226-230 with start_frontend_server (115-141); on failure
\* cleanup_processes(api_process, None) is called; on success lines 240-241
\* install the handlers
StartFrontend ==
    /\ main_pc = "start_frontend"
    /\ \E outcome \in {"none", "exited", "running"} :
         /\ proc' = [proc EXCEPT !["frontend"] = outcome]
         /\ IF outcome = "running"
              THEN /\ main_pc' = "handlers_set"
                   /\ UNCHANGED << frames, cleanup_calls >>
              ELSE /\ main_pc' = "cleanup_failed"
                   /\ frames' = << CleanupFrame({"api"}, FALSE) >>
                   /\ cleanup_calls' = cleanup_calls + 1
    /\ UNCHANGED << exiting, signals >>

\* line 243: the try block is entered
EnterTry ==
    /\ main_pc = "handlers_set"
    /\ frames = << >>
    /\ main_pc' = "monitor"
    /\ UNCHANGED << proc, frames, exiting, signals, cleanup_calls >>

\* lines 248-255 and 261-262: a child has exited, the loop breaks and the
\* finally clause calls cleanup_processes
MonitorBreak ==
    /\ main_pc = "monitor"
    /\ frames = << >>
    /\ \E c \in Children : ~PollIsNone(c)
    /\ main_pc' = "finally"
    /\ frames' = << CleanupFrame(Children, FALSE) >>
    /\ cleanup_calls' = cleanup_calls + 1
    /\ UNCHANGED << proc, exiting, signals >>

\* SIGINT or SIGTERM once the handlers are installed: signal_handler (lines
\* 236-238) starts cleanup_processes on top of whatever was running
Signal ==
    /\ main_pc \in {"handlers_set", "monitor", "finally"}
    /\ signals < MaxSignals
    /\ signals' = signals + 1
    /\ frames' = Append(frames, CleanupFrame(Children, TRUE))
    /\ cleanup_calls' = cleanup_calls + 1
    /\ UNCHANGED << proc, main_pc, exiting >>

\* SIGINT or SIGTERM before line 240: KeyboardInterrupt or the default
\* action ends main, which does not return
Interrupted ==
    /\ main_pc \in {"start_frontend", "cleanup_failed"}
    /\ main_pc' = "aborted"
    /\ frames' = << >>
    /\ UNCHANGED << proc, exiting, signals, cleanup_calls >>

\* lines 183-186 and 191-194: poll(), then terminate() if still running
CleanupPoll(c) ==
    /\ frames # << >>
    /\ Top.at = PollStep(c)
    /\ IF NeedsStop(Top, c)
         THEN /\ proc' = [proc EXCEPT ![c] =
                            IF @ = "running" THEN "terminating" ELSE @]
              /\ frames' = SetTop([Top EXCEPT !.at = WaitStep(c),
                                              !.sent = @ + 1])
         ELSE /\ frames' = SetTop([Top EXCEPT !.at = StepAfter(c)])
              /\ UNCHANGED proc
    /\ UNCHANGED << main_pc, exiting, signals, cleanup_calls >>

\* lines 187 and 195: wait(timeout=5) returns, the child has exited
CleanupWaitReturns(c) ==
    /\ frames # << >>
    /\ Top.at = WaitStep(c)
    /\ ~PollIsNone(c)
    /\ frames' = SetTop([Top EXCEPT !.at = StepAfter(c)])
    /\ UNCHANGED << proc, main_pc, exiting, signals, cleanup_calls >>

\* lines 188-189 and 196-197: TimeoutExpired, kill(); nothing waits for the
\* killed child
CleanupWaitTimeout(c) ==
    /\ frames # << >>
    /\ Top.at = WaitStep(c)
    /\ PollIsNone(c)
    /\ proc' = [proc EXCEPT ![c] = "killed"]
    /\ frames' = SetTop([Top EXCEPT !.at = StepAfter(c), !.sent = @ + 1])
    /\ UNCHANGED << main_pc, exiting, signals, cleanup_calls >>

\* cleanup_processes returns.  From the handler, sys.exit(0) follows (line
\* 238): inside the try block SystemExit runs the finally clause, inside
\* the finally clause or before the try block it leaves main.
CleanupReturn ==
    /\ frames # << >>
    /\ Top.at = "done"
    /\ IF Top.exit_after
         THEN IF main_pc = "monitor"
                THEN /\ main_pc' = "finally"
                     /\ exiting' = TRUE
                     /\ frames' = << CleanupFrame(Children, FALSE) >>
                     /\ cleanup_calls' = cleanup_calls + 1
                ELSE /\ main_pc' = "exited"
                     /\ frames' = << >>
                     /\ UNCHANGED << exiting, cleanup_calls >>
         ELSE /\ frames' = SubSeq(frames, 1, Len(frames) - 1)
              /\ main_pc' = IF main_pc = "cleanup_failed" THEN "returned1"
                            ELSE IF exiting THEN "exited"
                            ELSE "returned0"
              /\ UNCHANGED << exiting, cleanup_calls >>
    /\ UNCHANGED << proc, signals >>

\* a child ends on its own, or dies of the signal it was sent
ChildExits(c) ==
    /\ main_pc # "idle"
    /\ proc[c] \in {"running", "terminating", "killed"}
    /\ proc' = [proc EXCEPT ![c] = "exited"]
    /\ UNCHANGED << main_pc, frames, exiting, signals, cleanup_calls >>

NextLauncher ==
    /\ \/ Prerequisites
       \/ StartApi
       \/ StartFrontend
       \/ EnterTry
       \/ MonitorBreak
       \/ Signal
       \/ Interrupted
       \/ \E c \in Children : CleanupPoll(c)
       \/ \E c \in Children : CleanupWaitReturns(c)
       \/ \E c \in Children : CleanupWaitTimeout(c)
       \/ CleanupReturn
       \/ \E c \in Children : ChildExits(c)
    /\ UNCHANGED << bidVars, macVars, reqVars, memberVars >>

SpecLauncher == InitLauncher /\ [][NextLauncher]_vars

(***************************************************************************)
(* Claims about calculate_estimated_bid, checked under SpecBid             *)
(***************************************************************************)
AbsentOrNonNegative(x) == x = None \/ x >= 0
AbsentOrZero(x) == x = None \/ x = 0

\* C1: for benchmark > 0 and premium, supplemental >= 0 or absent, the
\* returned bid lies in [0.80 * benchmark, benchmark], whatever the branch.
C1_BidWithinClamp ==
    ( /\ bid_ret.done
      /\ bid_args.benchmark # None /\ bid_args.benchmark > 0
      /\ AbsentOrNonNegative(bid_args.premium)
      /\ AbsentOrNonNegative(bid_args.supplements) )
    => /\ bid_ret.result # None
       /\ 5 * bid_ret.result >= 4 * bid_args.benchmark
       /\ bid_ret.result <= bid_args.benchmark

\* C1 witness: a call whose premium branch would fall below the floor has
\* returned, and one strictly inside the interval is covered by C3's witness
C1_Witness ==
    /\ bid_ret.done
    /\ bid_args.benchmark = Dollars(500)
    /\ bid_args.premium = Dollars(150)
    /\ bid_ret.branch = 2
    /\ 5 * bid_ret.estimated_bid < 4 * bid_args.benchmark
    /\ 5 * bid_ret.result = 4 * bid_args.benchmark

\* C2: for every benchmark <= 0 (zero, absent or negative) the function
\* returns None and never a number.
C2_NonPositiveBenchmarkGivesNone ==
    ( /\ bid_ret.done
      /\ (bid_args.benchmark = None \/ bid_args.benchmark <= 0) )
    => bid_ret.result = None

\* C3: for benchmark > 0 the pre-clamp bid follows the precedence
\* (1) premium zero/absent and supplemental > 0, (2) premium > 0, (3) the
\* rest; exactly one branch applies and a positive premium selects (2).
C3_BranchPrecedence ==
    ( /\ bid_ret.done
      /\ bid_args.benchmark # None /\ bid_args.benchmark > 0 )
    => LET b == bid_args.benchmark
           p == bid_args.premium
           s == bid_args.supplements
           margin == (7 * b) \div 200
       IN  /\ bid_ret.branch \in {1, 2, 3}
           /\ (AbsentOrZero(p) /\ s # None /\ s > 0)
                => /\ bid_ret.branch = 1
                   /\ bid_ret.estimated_bid = b - s \div 20 - margin
           /\ (p # None /\ p > 0)
                => /\ bid_ret.branch = 2
                   /\ bid_ret.estimated_bid = b - p - margin
           /\ (~(AbsentOrZero(p) /\ s # None /\ s > 0) /\ ~(p # None /\ p > 0))
                => /\ bid_ret.branch = 3
                   /\ bid_ret.estimated_bid = (23 * b) \div 25
           /\ (AbsentOrZero(p) /\ AbsentOrZero(s)) => bid_ret.branch = 3

\* C3 witness: a positive premium together with a positive supplemental
\* value has taken the premium branch
C3_Witness ==
    /\ bid_ret.done
    /\ bid_args.benchmark = Dollars(500)
    /\ bid_args.premium = Dollars(20)
    /\ bid_args.supplements = Dollars(200)
    /\ bid_ret.branch = 2
    /\ bid_ret.estimated_bid = Dollars(500) - Dollars(20) - Dollars(35) \div 2
    /\ bid_ret.result = bid_ret.estimated_bid

(***************************************************************************)
(* Claims about calculate_mac_value, checked under SpecMac                 *)
(***************************************************************************)
Present(x) == x # None
PresentAndPositive(x) == x # None /\ x > 0
ZeroIfAbsent(x) == IF x = None THEN 0 ELSE x

\* every field of the plan record is a number or absent
AllNumeric(plan) == \A key \in DOMAIN plan : plan[key] # Bad

\* the benchmark of a plan record: estimated_benchmark, else benchmark_0pct
PlanBenchmark(plan) ==
    IF Present(plan.estimated_benchmark) /\ plan.estimated_benchmark # 0
      THEN plan.estimated_benchmark
      ELSE plan.benchmark_0pct

\* the rebate tiers as the specification states them, in permille
TierOf(rating) ==
    IF Present(rating) /\ rating >= 45 THEN 3
    ELSE IF Present(rating) /\ rating >= 35 THEN 2
    ELSE 1
TierRebate(tier) == IF tier = 3 THEN 700 ELSE IF tier = 2 THEN 650 ELSE 500

ExpectedGrossSavings(plan) ==
    IF PresentAndPositive(PlanBenchmark(plan))
       /\ PresentAndPositive(plan.estimated_bid)
      THEN IF PlanBenchmark(plan) >= plan.estimated_bid
             THEN PlanBenchmark(plan) - plan.estimated_bid
             ELSE 0
      ELSE 0

\* C4: gross_savings = max(0, benchmark - estimated_bid) when both are
\* present and positive and 0 otherwise; part_c_benefit_value =
\* rebate_amount + supplemental_annual / 12; part_d_benefit_value =
\* rebate_amount * 0.25; total_value_added = part C + part D + buydown -
\* (premium_c + premium_d); absent fields count as 0.
C4_MacValueFormula ==
    (mac_ret.done /\ AllNumeric(mac_plan)) =>
      LET l == mac_ret.locals
          r == mac_ret.result
          supp == ZeroIfAbsent(mac_plan.total_supplemental_value)
          premiums == ZeroIfAbsent(mac_plan.part_c_premium)
                        + ZeroIfAbsent(mac_plan.part_d_premium)
      IN  /\ l.gross_savings = ExpectedGrossSavings(mac_plan)
          /\ 12 * (l.part_c_benefit_value - l.rebate_amount) = supp
          /\ 4 * l.part_d_benefit_value = l.rebate_amount
          /\ l.total_value_added =
               l.part_c_benefit_value + l.part_d_benefit_value
                 + ZeroIfAbsent(mac_plan.part_b_buydown) - premiums
          /\ r.value_added_pmpm = Round2(l.total_value_added)
          /\ r.calculation_details.gross_savings = Round2(l.gross_savings)
          /\ r.components.part_c_benefit_value
               = Round2(l.part_c_benefit_value)
          /\ r.components.part_d_benefit_value
               = Round2(l.part_d_benefit_value)

\* C4 witness: a bid above the benchmark has been floored to no savings
\* while buydown, supplemental value and both premiums entered the total
C4_Witness ==
    /\ mac_ret.done
    /\ AllNumeric(mac_plan)
    /\ mac_plan.estimated_benchmark = Dollars(500)
    /\ mac_plan.estimated_bid = Dollars(600)
    /\ mac_plan.part_b_buydown = Dollars(10)
    /\ mac_plan.part_c_premium = Dollars(20)
    /\ mac_plan.part_d_premium = Dollars(15)
    /\ mac_plan.total_supplemental_value = Dollars(2400)
    /\ mac_ret.locals.gross_savings = 0
    /\ mac_ret.locals.total_value_added = Dollars(200 + 10 - 35)

\* C5: rebate percentage 0.70 for star_rating >= 4.5, 0.65 for 3.5 <=
\* star_rating < 4.5, 0.50 otherwise (absent included); rebate_amount =
\* gross_savings * percentage; with positive gross savings a rating in a
\* higher tier gives a strictly larger rebate_amount.
C5_RebateTiers ==
    (mac_ret.done /\ AllNumeric(mac_plan)) =>
      LET l == mac_ret.locals
          tier == TierOf(mac_plan.overall_rating)
      IN  /\ l.rebate_percentage = TierRebate(tier)
          /\ mac_ret.result.calculation_details.rebate_percentage
               = TierRebate(tier) \div 10
          /\ 20 * l.rebate_amount = l.gross_savings * (TierRebate(tier) \div 50)
          /\ l.gross_savings > 0 =>
               \A higher \in RatingVals :
                  TierOf(higher) > tier =>
                    MacLocals([mac_plan EXCEPT !.overall_rating = higher])
                        .rebate_amount > l.rebate_amount

\* C5 witness: a 3.4-star plan with positive gross savings got the 0.50
\* rebate, which a 3.5-star rating raises
C5_Witness ==
    /\ mac_ret.done
    /\ AllNumeric(mac_plan)
    /\ mac_plan.overall_rating = 34
    /\ mac_ret.locals.gross_savings = Dollars(100)
    /\ mac_ret.locals.rebate_amount = Dollars(50)
    /\ MacLocals([mac_plan EXCEPT !.overall_rating = 35]).rebate_amount
         = Dollars(65)

(***************************************************************************)
(* Claims about get_mac_value_analysis, checked under Spec                 *)
(***************************************************************************)
Answered == pc = "responded" /\ response = "success"

\* the raw value added figures of the batch that are not None
ValidRawValues ==
    { raw_mac_data[i].raw_value_added : i \in DOMAIN raw_mac_data } \ {None}
ValidRawCount ==
    Cardinality({ i \in DOMAIN raw_mac_data :
                    raw_mac_data[i].raw_value_added # None })
LowestRaw == CHOOSE v \in ValidRawValues : \A w \in ValidRawValues : v <= w
HighestRaw == CHOOSE v \in ValidRawValues : \A w \in ValidRawValues : v >= w

\* no numeric column of the row holds text
NumericRow(row) ==
    Bad \notin { row.estimated_benchmark, row.part_c_premium,
                 row.part_d_premium, row.total_supplemental_value,
                 row.overall_rating }

\* no ranking is possible: fewer than 2 valid figures, or all of them equal
DegenerateMarket == ValidRawCount < 2 \/ Cardinality(ValidRawValues) = 1

\* the ladder of the specification on position = (value - min) / range,
\* each threshold p/q written as q * (value - min) >= p * range
LadderScore(value, min, range) ==
    IF 10 * (value - min) >= 9 * range THEN 100
    ELSE IF 4 * (value - min) >= 3 * range THEN 90
    ELSE IF 5 * (value - min) >= 3 * range THEN 80
    ELSE IF 5 * (value - min) >= 2 * range THEN 70
    ELSE IF 4 * (value - min) >= range THEN 60
    ELSE IF 10 * (value - min) >= range THEN 50
    ELSE 40

\* C6: a degenerate batch (fewer than 2 valid raw figures, or all raw
\* values equal) gives every plan the score 60, and the request completes.
C6_DegenerateMarketScores60 ==
    ( /\ pc = "responded"
      /\ params_state # ""
      /\ \A i \in DOMAIN rows : NumericRow(rows[i])
      /\ DegenerateMarket )
    => /\ response = "success"
       /\ Len(mac_analysis) = Len(rows)
       /\ \A i \in DOMAIN mac_analysis : mac_analysis[i].mac_value = 60

\* C6 witness: three plans with one and the same raw value were scored
C6_Witness ==
    /\ Answered
    /\ Len(rows) = 3
    /\ rows[1] # rows[2]
    /\ Cardinality(ValidRawValues) = 1
    /\ \A i \in 1..3 : mac_analysis[i].mac_value = 60

C8_ExtremesScore100And40 ==
    (Answered /\ ~DegenerateMarket)
    => \A i \in DOMAIN mac_analysis :
         /\ mac_analysis[i].value_added_pmpm = HighestRaw
              => mac_analysis[i].mac_value = 100
         /\ mac_analysis[i].value_added_pmpm = LowestRaw
              => mac_analysis[i].mac_value = 40

\* C8 witness: the market of two plans with raw values -50 and 100
C8_Witness ==
    /\ Answered
    /\ Len(rows) = 2
    /\ raw_mac_data[1].raw_value_added = Dollars(-50)
    /\ raw_mac_data[2].raw_value_added = Dollars(100)
    /\ mac_analysis[1].value_added_pmpm = Dollars(100)
    /\ mac_analysis[1].mac_value = 100
    /\ mac_analysis[2].mac_value = 40

\* C9: the returned list is ordered by final mac_value non-increasing, and
\* plans with equal mac_value keep the relative order of the input batch.
C9_StableDescendingSort ==
    Answered =>
      /\ Len(mac_analysis) = Len(rows)
      /\ { mac_analysis[i].row_index : i \in DOMAIN mac_analysis }
           = DOMAIN rows
      /\ \A i \in DOMAIN mac_analysis :
           mac_analysis[i].organization
             = rows[mac_analysis[i].row_index].organization
      /\ \A i, j \in DOMAIN mac_analysis :
           i < j =>
             /\ mac_analysis[i].mac_value >= mac_analysis[j].mac_value
             /\ mac_analysis[i].mac_value = mac_analysis[j].mac_value
                  => mac_analysis[i].row_index < mac_analysis[j].row_index

\* C9 witness: the last row of the batch was ranked first, ahead of two
\* tied plans that kept their order
C9_Witness ==
    /\ Answered
    /\ Len(rows) = 3
    /\ rows[1] # rows[2]
    /\ mac_analysis[1].row_index = 3
    /\ mac_analysis[2].row_index = 1
    /\ mac_analysis[3].row_index = 2
    /\ mac_analysis[2].mac_value = mac_analysis[3].mac_value

FinalScores == {40, 50, 60, 70, 80, 90, 100}
CountScored(score) ==
    Cardinality({ i \in DOMAIN mac_analysis :
                    mac_analysis[i].mac_value = score })

\* C10: total_plans is the batch size; average, highest and lowest are the
\* mean, max and min of the final mac_values; market_leader is the
\* organization of the first plan after the sort; an empty batch gives
\* market_leader None and zeros.
C10_MarketStatistics ==
    Answered =>
      IF rows = << >>
        THEN /\ market_stats.market_leader = NoOrganization
             /\ market_stats.total_plans = 0
             /\ market_stats.average_mac_value.num = 0
             /\ market_stats.average_mac_value.den # 0
             /\ market_stats.highest_mac_value = 0
             /\ market_stats.lowest_mac_value = 0
        ELSE /\ market_stats.total_plans = Len(rows)
             /\ \A i \in DOMAIN mac_analysis :
                  mac_analysis[i].mac_value \in FinalScores
             /\ market_stats.average_mac_value.den = Len(rows)
             /\ market_stats.average_mac_value.num
                  = 40 * CountScored(40) + 50 * CountScored(50)
                      + 60 * CountScored(60) + 70 * CountScored(70)
                      + 80 * CountScored(80) + 90 * CountScored(90)
                      + 100 * CountScored(100)
             /\ \E i \in DOMAIN mac_analysis :
                  mac_analysis[i].mac_value = market_stats.highest_mac_value
             /\ \E i \in DOMAIN mac_analysis :
                  mac_analysis[i].mac_value = market_stats.lowest_mac_value
             /\ \A i \in DOMAIN mac_analysis :
                  /\ mac_analysis[i].mac_value
                       <= market_stats.highest_mac_value
                  /\ mac_analysis[i].mac_value
                       >= market_stats.lowest_mac_value
             /\ market_stats.market_leader = mac_analysis[1].organization

\* C10 witness: a market whose leader is not the first row of the batch and
\* whose final scores differ from the provisional ones
C10_Witness ==
    /\ Answered
    /\ Len(rows) = 3
    /\ mac_analysis[1].row_index = 3
    /\ market_stats.market_leader = "Humana"
    /\ rows[1].organization = "Aetna"
    /\ market_stats.highest_mac_value = 100
    /\ market_stats.lowest_mac_value = 40
    /\ market_stats.average_mac_value = [num |-> 210, den |-> 3]
    /\ \A i \in 1..3 : raw_mac_data[i].mac_scores.mac_value < 40

\* the fields calculate_mac_value reads: benchmark_0pct only when
\* estimated_benchmark is absent or zero
FieldsRead(plan) ==
    { plan.part_c_premium, plan.part_d_premium, plan.part_b_buydown,
      plan.estimated_benchmark, plan.estimated_bid, plan.overall_rating,
      plan.total_supplemental_value }
      \cup (IF plan.estimated_benchmark \in {None, 0}
              THEN {plan.benchmark_0pct} ELSE {})

ZeroFilled(result) ==
    /\ result.mac_value = 0
    /\ result.value_added_pmpm = 0
    /\ result.components =
         [ part_c_benefit_value |-> 0, part_d_benefit_value |-> 0,
           part_b_buydown |-> 0, total_member_premium |-> 0,
           rebate_amount |-> 0, supplemental_benefits_pmpm |-> 0 ]

\* C12: calculate_mac_value always returns; when a step faults on a
\* non-numeric field the result has mac_value, value_added_pmpm and the six
\* components 0 and carries an error description; a result produced
\* without a fault has no error field.
C12_FaultGivesZeroFilledResult ==
    mac_ret.done =>
      IF Bad \in FieldsRead(mac_plan)
        THEN /\ mac_ret.result.has_error
             /\ mac_ret.result.error # 0
             /\ ZeroFilled(mac_ret.result)
        ELSE /\ ~mac_ret.result.has_error
             /\ mac_ret.result.mac_value \in {10, 20, 30, 40, 50, 60, 70,
                                              80, 90, 100}

\* C12 witness: a plan whose only malformed field is the star rating came
\* back zero-filled with the error of line 77
C12_Witness ==
    /\ mac_ret.done
    /\ mac_plan.overall_rating = Bad
    /\ \A key \in DOMAIN mac_plan \ {"overall_rating"} : mac_plan[key] # Bad
    /\ mac_plan.total_supplemental_value = Dollars(2400)
    /\ mac_ret.result.has_error
    /\ mac_ret.result.error = 77
    /\ ZeroFilled(mac_ret.result)

(***************************************************************************)
(* Claims about the two request handlers, checked under Spec               *)
(***************************************************************************)
PlansAnswered == pc = "plans_responded" /\ response = "success"

\* the market-relative score the batch gives the plan at position i
ExpectedFinal(i) ==
    IF DegenerateMarket THEN 60
    ELSE LadderScore(raw_mac_data[i].raw_value_added, LowestRaw,
                     HighestRaw - LowestRaw)

\* the entries of the analysis that come from the row at position i
EntriesOf(i) == { k \in DOMAIN mac_analysis : mac_analysis[k].row_index = i }
FinalOf(i) == mac_analysis[CHOOSE k \in EntriesOf(i) : TRUE].mac_value

\* C11: after normalization every plan of the batch carries, exactly once,
\* the market-relative score as its mac_value, a value in 40, 50, ..., 100,
\* whatever the provisional score was; in the analysis and in get_plans.
C11_FinalScoreIsMarketRelative ==
    /\ Answered =>
         /\ Len(mac_analysis) = Len(rows)
         /\ \A i \in DOMAIN rows :
              /\ Cardinality(EntriesOf(i)) = 1
              /\ FinalOf(i) = ExpectedFinal(i)
              /\ FinalOf(i) \in FinalScores
    /\ PlansAnswered =>
         /\ Len(plans) = Len(rows)
         /\ \A i \in DOMAIN rows :
              /\ plans[i].mac_value_scores.mac_value = ExpectedFinal(i)
              /\ plans[i].mac_value_scores.mac_value \in FinalScores

\* C11 witness: a batch of 3 in which every provisional score lies outside
\* 40..100 and every final score differs from it
C11_Witness ==
    /\ Answered
    /\ Len(rows) = 3
    /\ \A i \in 1..3 :
         /\ raw_mac_data[i].mac_scores.mac_value \notin FinalScores
         /\ FinalOf(i) # raw_mac_data[i].mac_scores.mac_value
    /\ \E i \in 1..3 : raw_mac_data[i].mac_scores.mac_value = 0
    /\ \E i \in 1..3 : raw_mac_data[i].mac_scores.mac_value = 10

\* the record of a plan whose scoring faulted, as the analysis returns it
ZeroFilledEntry(e) ==
    /\ e.value_added_pmpm = 0
    /\ \A f \in DOMAIN e.components : e.components[f] = 0

\* C13: a text value in a numeric column of one row never makes the market
\* analysis fail: it answers success with one record per row, zero-filled
\* for the malformed row and scored for every row.
C13_MalformedFieldNeverFailsCall ==
    (pc = "responded" /\ params_state # "")
    => /\ response = "success"
       /\ Len(mac_analysis) = Len(rows)
       /\ \A k \in DOMAIN mac_analysis :
            /\ mac_analysis[k].mac_value \in FinalScores
            /\ ~NumericRow(rows[mac_analysis[k].row_index])
                 => ZeroFilledEntry(mac_analysis[k])

\* C14: a plan whose benchmark is absent or zero has a null estimated bid
\* in everything returned for it, never the number 0.
C14_UnknownBidStaysNull ==
    /\ Answered =>
         \A k \in DOMAIN mac_analysis :
           ~Truthy(rows[mac_analysis[k].row_index].estimated_benchmark)
           => /\ mac_analysis[k].financial_summary.estimated_bid = None
              /\ mac_analysis[k].calculation_details # << >>
                   => mac_analysis[k].calculation_details.estimated_bid = None
    /\ PlansAnswered =>
         \A i \in DOMAIN plans :
           ~Truthy(rows[i].estimated_benchmark)
           => plans[i].plan.estimated_bid = None

\* the row of the worked example: benchmark 500, premium 0, annual
\* supplemental 200, 4.6 stars
ExampleRow(row) ==
    /\ row.estimated_benchmark = Dollars(500)
    /\ OrZero(row.part_c_premium) = 0
    /\ OrZero(row.part_d_premium) = 0
    /\ row.total_supplemental_value = Dollars(200)
    /\ row.overall_rating = 46

\* the figures the analysis returns for the worked example, the part C
\* benefit value being the given number of cents
ExampleFigures(part_c_cents) ==
    Answered =>
      \A k \in DOMAIN mac_analysis :
        ExampleRow(rows[mac_analysis[k].row_index])
        => /\ 2 * mac_analysis[k].financial_summary.estimated_bid
                = Dollars(945)
           /\ 2 * mac_analysis[k].calculation_details.gross_savings
                = Dollars(55)
           /\ mac_analysis[k].components.rebate_amount = 1925 * Cent
           /\ mac_analysis[k].components.part_c_benefit_value
                = part_c_cents * Cent

\* C16 as stated: bid 472.5, gross savings 27.5, rebate 19.25 and a part C
\* benefit value of 36.00
C16_ExampleAsStated == ExampleFigures(3600)

\* C16: for benchmark 500, premium 0, annual supplemental 200 and 4.6
\* stars the bid is 472.5, gross savings 27.5, the rebate 19.25 and the
\* part C benefit value 19.25 + 200/12 = 35.92 to 2 decimal places.
C16_ExampleFigures == ExampleFigures(3592)

\* C16 witness: the example plan is part of an answered analysis
C16_Witness ==
    /\ Answered
    /\ \E k \in DOMAIN mac_analysis :
         /\ ExampleRow(rows[mac_analysis[k].row_index])
         /\ mac_analysis[k].components.part_c_benefit_value = 3592 * Cent
         /\ mac_analysis[k].components.supplemental_benefits_pmpm
              = 1667 * Cent

RawOf(k) == raw_mac_data[mac_analysis[k].row_index].raw_value_added

\* C17: normalization preserves the order of the raw values; the first plan
\* after the sort has the highest final score; when the raw values are not
\* all equal the highest final score is 100 and the lowest is 40.
C17_OrderPreserving ==
    Answered =>
      /\ \A j, k \in DOMAIN mac_analysis :
           RawOf(j) >= RawOf(k)
           => mac_analysis[j].mac_value >= mac_analysis[k].mac_value
      /\ \A k \in DOMAIN mac_analysis :
           mac_analysis[1].mac_value >= mac_analysis[k].mac_value
      /\ Cardinality(ValidRawValues) > 1
           => /\ market_stats.highest_mac_value = 100
              /\ market_stats.lowest_mac_value = 40

\* C17 witness: 3 plans with 3 different raw values and 3 different final
\* scores, the leader being the last row of the batch
C17_Witness ==
    /\ Answered
    /\ Len(rows) = 3
    /\ RawOf(1) > RawOf(2) /\ RawOf(2) > RawOf(3)
    /\ mac_analysis[1].mac_value = 100
    /\ mac_analysis[2].mac_value \in {50, 60, 70, 80, 90}
    /\ mac_analysis[3].mac_value = 40
    /\ mac_analysis[1].row_index = 3

Faulted(i) == raw_mac_data[i].mac_scores.has_error

\* C18: no raw value is null, so every plan counts as a valid figure; a
\* plan whose scoring faulted has raw value 0 and provisional score 0 and
\* is given a market-relative score in 40..100; a batch of one good plan
\* with raw value # 0 and one faulted plan is ranked, 100 against 40.
C18_FaultedPlanIsRanked ==
    Answered =>
      /\ ValidRawCount = Len(rows)
      /\ \A i \in DOMAIN raw_mac_data :
           /\ raw_mac_data[i].raw_value_added # None
           /\ Faulted(i)
                => /\ raw_mac_data[i].raw_value_added = 0
                   /\ raw_mac_data[i].mac_scores.mac_value = 0
                   /\ FinalOf(i) \in FinalScores
      /\ \A i, j \in DOMAIN raw_mac_data :
           ( /\ Len(rows) = 2
             /\ Faulted(i) /\ ~Faulted(j)
             /\ raw_mac_data[j].raw_value_added # 0 )
           => /\ ~DegenerateMarket
              /\ {FinalOf(i), FinalOf(j)} = {40, 100}

\* C18 witness: a good plan with a negative raw value next to a faulted
\* plan, which gets the top score
C18_Witness ==
    /\ Answered
    /\ Len(rows) = 2
    /\ \E i, j \in 1..2 :
         /\ Faulted(i) /\ ~Faulted(j)
         /\ raw_mac_data[j].raw_value_added < 0
         /\ FinalOf(i) = 100
         /\ FinalOf(j) = 40

(***************************************************************************)
(* Claim about calculate_member_value_pmpm, checked under SpecMember       *)
(***************************************************************************)
\* C15: the returned member value is (rebate * 12 + supplemental_value
\* - (premium_c + premium_d) * 12) / 12, absent inputs counting as 0.
C15_MemberValueFormula ==
    (member_ret.done /\ ~MemberFault(member_plan))
    => MonthsPerYear * member_ret.result
         = ZeroIfAbsent(member_plan.rebate) * MonthsPerYear
             + ZeroIfAbsent(member_plan.total_supplemental_value)
             - ( ZeroIfAbsent(member_plan.part_c_premium)
                   + ZeroIfAbsent(member_plan.part_d_premium) )
                 * MonthsPerYear

(***************************************************************************)
(* Claim about start_servers.main, checked under SpecLauncher              *)
(***************************************************************************)
MainEnded == main_pc \in {"returned0", "returned1", "exited"}

\* the child was never started, has exited, or has been sent SIGKILL
StoppedOrKilled(c) == proc[c] \in {"none", "exited", "killed"}

\* C19: when main returns (or leaves through sys.exit) no child it started
\* is left running: after a failed frontend start the API child is stopped
\* before return 1, and after the monitor loop every child is; a call of
\* cleanup_processes that finds its children exited sends no terminate()
\* and no kill().
C19_NoChildLeftRunning ==
    /\ MainEnded => \A c \in Children : StoppedOrKilled(c)
    /\ \A k \in DOMAIN frames :
         frames[k].entry_stopped => frames[k].sent = 0

\* C19 witness: after a signal the handler has stopped both running
\* children, and the second call of cleanup_processes, from the finally
\* clause, has gone through both without sending anything
C19_Witness ==
    /\ main_pc = "finally"
    /\ exiting
    /\ signals = 1
    /\ cleanup_calls = 2
    /\ Len(frames) = 1
    /\ frames[1].entry_stopped
    /\ frames[1].at = "done"
    /\ frames[1].sent = 0
    /\ \A c \in Children : proc[c] = "exited"
====
